---- MODULE Spec2Model ----
(***************************************************************************)
(* The filing synchronisation and alerting pipeline of the financial       *)
(* terminal: the store (data/dao.py, data/models.py), one pass of the      *)
(* poller (services/poller.py) run by a background thread worker, and the  *)
(* foreground handlers that start passes and read alerts (app.py).         *)
(***************************************************************************)
EXTENDS Integers, Sequences, FiniteSets, TLC

\* ------------------------------------------------------------------ bounds
\* Longest listing one adapter call returns.
MaxBatch == 2
\* The poll interval and the throttle delay, in ticks of the clock, and the
\* last tick of the clock.
Interval == 2
Throttle == 1
MaxTime == 3
\* Longest column of a raw listing.
MaxRaw == 2
\* Most filing rows of a store on which a dao function is called on its own.
MaxStored == 3
\* Most filing rows of a store on which upsert_filings is called on its own.
MaxKept == 2

\* The worker threads of group "sec_filings": each started pass runs in a
\* thread of its own, pass k in thread k.
Workers == {1, 2}
\* The ticker catalogue: symbols in order; ticker 3 has no CIK.
Tickers == {1, 2, 3}
TickerCik == [t \in Tickers |-> IF t = 3 THEN "" ELSE "cik"]
\* Accession numbers the upstream may list.
FilingIds == {1, 2}
\* AppConfig.sec_enabled
SecEnabled == TRUE

Batches == UNION {[1..n -> FilingIds] : n \in 0..MaxBatch}

\* ----------------------------------------------------------------- helpers
SeqToSet(s) == {s[i] : i \in DOMAIN s}
NoDup(s) == \A i, j \in DOMAIN s : s[i] = s[j] => i = j
RECURSIVE SortedSeq(_)
SortedSeq(S) ==
    IF S = {} THEN <<>>
    ELSE LET m == CHOOSE x \in S : \A y \in S : x <= y
         IN <<m>> \o SortedSeq(S \ {m})
RECURSIVE SumLen(_)
SumLen(fs) == IF fs = <<>> THEN 0 ELSE Len(Head(fs)[2]) + SumLen(Tail(fs))
RECURSIVE Flatten(_)
Flatten(fs) == IF fs = <<>> THEN <<>> ELSE Head(fs)[2] \o Flatten(Tail(fs))

VARIABLES
    filings,     \* committed rows of table filings; the row id is the index
    alerts,      \* committed rows of table alerts; the row id is the index
    watchlist,   \* committed rows of table watchlist, as the set of ticker ids
    pass,        \* per worker thread: position and locals of its pass
    nruns,       \* passes started so far
    status,      \* the status bar of the foreground, and what the callback
                 \* that reported a pass did to the views of the foreground
    calls,       \* history, per worker: the listings its pass was given
    hist,        \* history: the passes reported last, latest first (at most two)
    lastUpsert,  \* history: the upsert_filings call that ended last
    clk,         \* the clock, the interval timer, and when what happened
    call,        \* the latest call of a function on its own: arguments, result
    catalog      \* tables tickers and watchlist, row by row, under the calls
                 \* of the dao functions that write them

prog == <<filings, alerts, watchlist, pass, nruns, status>>
history == <<calls, hist, lastUpsert, call, catalog>>
obs == <<calls, hist, lastUpsert, clk, call, catalog>>
vars ==
    <<filings, alerts, watchlist, pass, nruns, status, calls, hist, lastUpsert,
      clk, call, catalog>>

\* ------------------------------------------------------------ store (dao.py)
\* SELECT ... WHERE source = :s AND filing_id = :f, first row or 0 (None).
Lookup(rows, src, fid) ==
    LET hit == {i \in DOMAIN rows : rows[i].source = src /\ rows[i].filing_id = fid}
    IN IF hit = {} THEN 0 ELSE CHOOSE i \in hit : \A j \in hit : i <= j

\* One iteration of the loop of upsert_filings on the session state
\* st = [adds, clears, created]: the lookup reads committed rows only
\* (autoflush is off), a hit marks the row dirty, a miss adds a pending row.
ScanRecordReturnsExisting(st, rows, fid) ==
    LET e == Lookup(rows, "sec", fid)
    IN IF e # 0
       THEN [st EXCEPT !.clears = @ \cup {e}, !.created = Append(@, fid)]
       ELSE [st EXCEPT !.adds = Append(@, fid), !.created = Append(@, fid)]

ScanRecordSeesPending(st, rows, fid) ==
    LET e == Lookup(rows, "sec", fid)
    IN IF e # 0
       THEN [st EXCEPT !.clears = @ \cup {e}]
       ELSE IF fid \in SeqToSet(st.adds) THEN st
            ELSE [st EXCEPT !.adds = Append(@, fid), !.created = Append(@, fid)]

ScanRecordOnlyFirstNew(st, rows, fid) ==
    LET e == Lookup(rows, "sec", fid)
    IN IF e # 0
       THEN [st EXCEPT !.clears = @ \cup {e}]
       ELSE IF st.adds # <<>> THEN st
            ELSE [st EXCEPT !.adds = Append(@, fid), !.created = Append(@, fid)]

ScanRecord(st, rows, fid) ==
    LET e == Lookup(rows, "sec", fid)
    IN IF e # 0
       THEN [st EXCEPT !.clears = @ \cup {e}]
       ELSE [st EXCEPT !.adds = Append(@, fid), !.created = Append(@, fid)]

\* The loop of upsert_filings, lines 178-187, over the batch. Every lookup is
\* taken against the same committed rows: keys are only ever added, so a
\* lookup that ran before another thread's commit either still holds at this
\* call's commit or makes that commit fail as the earlier view does.
RECURSIVE ScanAll(_, _, _)
ScanAll(st, rows, b) ==
    IF b = <<>> THEN st ELSE ScanAll(ScanRecord(st, rows, Head(b)), rows, Tail(b))

\* UniqueConstraint("source", "filing_id") on the rows a flush would insert.
UniqueOk(rows, adds) ==
    /\ NoDup(adds)
    /\ \A i \in DOMAIN adds : Lookup(rows, "sec", adds[i]) = 0

NewRows(adds, t) ==
    [i \in DOMAIN adds |->
        [source |-> "sec", filing_id |-> adds[i], ticker_id |-> t, is_new |-> TRUE]]

ClearNewKeepsFlag(rows, clears) == rows

ClearNewToggles(rows, clears) ==
    [i \in DOMAIN rows |->
        IF i \in clears THEN [rows[i] EXCEPT !.is_new = ~@] ELSE rows[i]]

ClearNew(rows, clears) ==
    [i \in DOMAIN rows |->
        IF i \in clears THEN [rows[i] EXCEPT !.is_new = FALSE] ELSE rows[i]]

\* session.commit() of upsert_filings: one transaction holding the UPDATEs of
\* the dirty rows and the INSERTs of the pending rows; an IntegrityError or a
\* store failure rolls all of it back.
CommitFilingsNoConstraint(rows, t, adds, clears, storeOk) ==
    IF storeOk
    THEN [ok |-> TRUE, rows |-> ClearNew(rows, clears) \o NewRows(adds, t)]
    ELSE [ok |-> FALSE, rows |-> rows]

CommitFilingsPartial(rows, t, adds, clears, storeOk) ==
    IF storeOk /\ UniqueOk(rows, adds)
    THEN [ok |-> TRUE, rows |-> ClearNew(rows, clears) \o NewRows(adds, t)]
    ELSE [ok |-> FALSE, rows |-> ClearNew(rows, clears)]

CommitFilings(rows, t, adds, clears, storeOk) ==
    IF storeOk /\ UniqueOk(rows, adds)
    THEN [ok |-> TRUE, rows |-> ClearNew(rows, clears) \o NewRows(adds, t)]
    ELSE [ok |-> FALSE, rows |-> rows]

\* add_alerts_for_filings: one unread Alert per filing given, one commit.
AddAlertsForFilingsTwice(al, fids) ==
    al \o [i \in DOMAIN fids |-> [filing_id |-> fids[i], read |-> FALSE]]
       \o [i \in DOMAIN fids |-> [filing_id |-> fids[i], read |-> FALSE]]

AddAlertsForFilingsRead(al, fids) ==
    al \o [i \in DOMAIN fids |-> [filing_id |-> fids[i], read |-> TRUE]]

AddAlertsForFilings(al, fids) ==
    al \o [i \in DOMAIN fids |-> [filing_id |-> fids[i], read |-> FALSE]]

\* unread_alerts: the ids of the rows with read = false.
UnreadAlerts(al) == {i \in DOMAIN al : ~al[i].read}

\* mark_alerts_read: read = true on the alerts given.
MarkAlertsReadAll(al, ids) ==
    [i \in DOMAIN al |-> [al[i] EXCEPT !.read = TRUE]]

MarkAlertsReadOnlyGiven(al, ids) ==
    [i \in DOMAIN al |-> [al[i] EXCEPT !.read = (i \in ids)]]

MarkAlertsRead(al, ids) ==
    [i \in DOMAIN al |-> IF i \in ids THEN [al[i] EXCEPT !.read = TRUE] ELSE al[i]]

\* unread_alert_counts: the rows of filings joined with alerts on
\* Alert.filing_id = Filing.id where read is false, grouped by
\* Filing.ticker_id and counted: a mapping from the ticker ids of the groups.
UnreadJoin(rows, al) ==
    {<<f, a>> \in (DOMAIN rows) \X (DOMAIN al) : al[a].filing_id = f /\ ~al[a].read}

UnreadAlertCountsOfAllOwners(rows, al) ==
    [t \in {rows[f].ticker_id : f \in DOMAIN rows} |->
        Cardinality({j \in UnreadJoin(rows, al) : rows[j[1]].ticker_id = t})]

UnreadAlertCounts(rows, al) ==
    [t \in {rows[j[1]].ticker_id : j \in UnreadJoin(rows, al)} |->
        Cardinality({j \in UnreadJoin(rows, al) : rows[j[1]].ticker_id = t})]

\* list_watchlist: the watched tickers ordered by symbol.
ListWatchlist(wl) == SortedSeq(wl)


\* ------------------------------------------------- a pass (poller.py, app.py)
EmptySt == [adds |-> <<>>, clears |-> {}, created |-> <<>>]

IdlePass ==
    [pc |-> "idle",          \* position of the worker thread
     symbols |-> {},         \* the symbols argument; {} is None
     cancelled |-> FALSE,    \* Worker.cancel() was called on it
     todo |-> <<>>,          \* tickers the loop of run_once has still to visit
     cur |-> 0,              \* ticker of the _poll_sec call in progress
     batch |-> <<>>,         \* filings of the upsert_filings call in progress
     st |-> EmptySt,         \* the session: pending rows, dirty rows, created
     new_filings |-> <<>>,   \* row ids accumulated by run_once
     err |-> "none",         \* what raised: "fetch" or "store"
     client |-> FALSE,       \* the fetch that raised was answered 4xx
     f0 |-> <<>>,            \* history: filings when the pass started
     a0 |-> 0,               \* history: number of alerts when the pass started
     alone |-> TRUE,         \* history: no other pass overlapped this one
     targets |-> 0,          \* history: tickers with CIK the pass set out to poll
     inserted |-> 0,         \* history: filing rows this pass committed
     rows |-> {},            \* history: ids of the filing rows it committed
     resighted |-> {},       \* history: ids of the rows it found persisted
     made |-> 0,             \* history: alert rows this pass committed
     madeUnread |-> 0,       \* history: of these, created with read = false
     lost |-> [adds |-> 0, clears |-> 0],
                             \* history: what the commit that raised held
     posted |-> 0,           \* history: callbacks the worker posted to the foreground
     session |-> 0,          \* the session of the worker function; 0 is none
     sopen |-> FALSE,        \* that session is open
     used |-> {}]            \* history: sessions the store operations ran on

\* The session of the foreground, FinancialTerminal.session.
ForegroundSession == 0

\* session = get_session(self.engine) in _refresh_filings_worker: a new
\* session, here named by the thread that made it.
WorkerSessionOfForeground(w) == ForegroundSession

WorkerSession(w) == w

\* The worker function has returned: the callback is posted, and the finally
\* clause has closed the session.
Ended(p) ==
    [IdlePass EXCEPT !.posted = p.posted + 1, !.session = p.session,
                     !.sopen = FALSE, !.used = p.used]

\* run_once is executing in worker w.
Running(w) == pass[w].pc \in {"list", "poll", "commit"}
\* The worker function has not returned yet.
Active(w) == pass[w].pc # "idle"

\* @work(thread=True, exclusive=True, group="sec_filings"): the workers of the
\* group are cancelled, which does not stop a thread that is running, and a
\* new thread is started on _refresh_filings_worker(symbols).
StartWorker(symbols) ==
    LET w == nruns + 1
    IN /\ w \in Workers
       /\ nruns' = w
       /\ pass' = [v \in Workers |->
                     IF v = w
                     THEN [IdlePass EXCEPT !.pc = "list", !.symbols = symbols,
                                           !.f0 = filings, !.a0 = Len(alerts),
                                           !.alone = \A u \in Workers : ~Active(u)]
                     ELSE IF Active(v)
                          THEN [pass[v] EXCEPT !.cancelled = TRUE, !.alone = FALSE]
                          ELSE pass[v]]
       /\ status' = [kind |-> "refreshing", count |-> 0,
                     expired |-> FALSE, reloaded |-> {}]

\* refresh_filings_from_sec(None): the interval timer, the first call of
\* _start_filings_polling and action_refresh_filings.
RefreshFilingsFromSec ==
    /\ watchlist # {}
    /\ StartWorker({})
    /\ UNCHANGED <<filings, alerts, watchlist>>

\* _add_ticker_from_input: add_ticker, add_to_watchlist, then
\* refresh_filings_from_sec([symbol]).
AddTickerFromInput(t) ==
    /\ watchlist' = watchlist \cup {t}
    /\ StartWorker({t})
    /\ UNCHANGED <<filings, alerts>>

\* _remove_selected_ticker: remove_from_watchlist on a watched ticker.
RemoveSelectedTickerWithAlerts(t) ==
    /\ t \in watchlist
    /\ watchlist' = watchlist \ {t}
    /\ alerts' = [a \in DOMAIN alerts |->
                     IF filings[alerts[a].filing_id].ticker_id = t
                     THEN [alerts[a] EXCEPT !.read = TRUE] ELSE alerts[a]]
    /\ UNCHANGED <<filings, pass, nruns, status>>

RemoveSelectedTicker(t) ==
    /\ t \in watchlist
    /\ watchlist' = watchlist \ {t}
    /\ UNCHANGED <<filings, alerts, pass, nruns, status>>

\* AlertsModal.refresh_alerts: show the unread alerts, then mark them read.
RefreshAlerts ==
    /\ alerts' = MarkAlertsRead(alerts, UnreadAlerts(alerts))
    /\ UNCHANGED <<filings, watchlist, pass, nruns, status>>

\* _refresh_filings_worker, lines 310-312, and run_once, lines 31-35: the
\* session of the pass, and the watched tickers, narrowed by symbols.
RunOnceList(w) ==
    /\ pass[w].pc = "list"
    /\ LET s == pass[w].symbols
           sel == {t \in watchlist : s = {} \/ t \in s}
       IN pass' = [pass EXCEPT ![w].pc = "poll", ![w].todo = ListWatchlist(sel),
                               ![w].session = WorkerSession(w), ![w].sopen = TRUE,
                               ![w].used = {WorkerSession(w)},
                               ![w].targets =
                                   Cardinality({t \in sel : SecEnabled /\ TickerCik[t] # ""})]
    /\ UNCHANGED <<filings, alerts, watchlist, nruns, status>>

\* run_once, line 37: a ticker without CIK is not polled.
PollSkipUnwatches(w) ==
    /\ pass[w].pc = "poll"
    /\ pass[w].todo # <<>>
    /\ ~(SecEnabled /\ TickerCik[Head(pass[w].todo)] # "")
    /\ pass' = [pass EXCEPT ![w].todo = Tail(@)]
    /\ watchlist' = watchlist \ {Head(pass[w].todo)}
    /\ UNCHANGED <<filings, alerts, nruns, status>>

PollSkip(w) ==
    /\ pass[w].pc = "poll"
    /\ pass[w].todo # <<>>
    /\ ~(SecEnabled /\ TickerCik[Head(pass[w].todo)] # "")
    /\ pass' = [pass EXCEPT ![w].todo = Tail(@)]
    /\ UNCHANGED <<filings, alerts, watchlist, nruns, status>>

\* _poll_sec: list_filings returns a listing, and upsert_filings looks every
\* record of it up.
PollFetchOk(w) ==
    /\ pass[w].pc = "poll"
    /\ pass[w].todo # <<>>
    /\ SecEnabled /\ TickerCik[Head(pass[w].todo)] # ""
    /\ \E b \in Batches :
          pass' = [pass EXCEPT ![w].pc = "commit", ![w].cur = Head(pass[w].todo),
                               ![w].batch = b, ![w].st = ScanAll(EmptySt, filings, b),
                               ![w].used = @ \cup {pass[w].session}]
    /\ UNCHANGED <<filings, alerts, watchlist, nruns, status>>

\* _poll_sec: _fetch_json raises (a transport error, or raise_for_status on
\* a 4xx or 5xx answer); nothing between list_filings and
\* _refresh_filings_worker catches it.
PollFetchFail(w) ==
    /\ pass[w].pc = "poll"
    /\ pass[w].todo # <<>>
    /\ SecEnabled /\ TickerCik[Head(pass[w].todo)] # ""
    /\ \E client \in BOOLEAN :
          pass' = [pass EXCEPT ![w].pc = "failed", ![w].err = "fetch",
                               ![w].client = client,
                               ![w].cur = Head(pass[w].todo)]
    /\ UNCHANGED <<filings, alerts, watchlist, nruns, status>>

\* upsert_filings, lines 188-189, and the return into the loop of run_once.
UpsertCommit(w) ==
    /\ pass[w].pc = "commit"
    /\ \E storeOk \in BOOLEAN :
        LET p == pass[w]
            r == CommitFilings(filings, p.cur, p.st.adds, p.st.clears, storeOk)
            ids == [i \in DOMAIN p.st.created |-> Lookup(r.rows, "sec", p.st.created[i])]
        IN /\ filings' = r.rows
           /\ pass' = IF r.ok
                      THEN [pass EXCEPT ![w].pc = "poll", ![w].todo = Tail(@),
                                        ![w].used = @ \cup {p.session},
                                        ![w].new_filings = @ \o ids,
                                        ![w].inserted = @ + Len(r.rows) - Len(filings),
                                        ![w].rows = @ \cup ((DOMAIN r.rows) \ (DOMAIN filings)),
                                        ![w].resighted = @ \cup p.st.clears,
                                        ![w].cur = 0, ![w].batch = <<>>,
                                        ![w].st = EmptySt]
                      ELSE [pass EXCEPT ![w].pc = "failed", ![w].err = "store",
                                        ![w].used = @ \cup {p.session},
                                        ![w].batch = <<>>, ![w].st = EmptySt,
                                        ![w].lost = [adds |-> Len(p.st.adds),
                                                     clears |-> Cardinality(p.st.clears)]]
    /\ UNCHANGED <<alerts, watchlist, nruns, status>>

\* run_once, lines 39-41 with nothing inserted: return [].
RunOnceReturnEmpty(w) ==
    /\ pass[w].pc = "poll"
    /\ pass[w].todo = <<>>
    /\ pass[w].new_filings = <<>>
    /\ pass' = [pass EXCEPT ![w].pc = "ok"]
    /\ UNCHANGED <<filings, alerts, watchlist, nruns, status>>

\* run_once, lines 39-41: add_alerts_for_filings(new_filings) and its commit.
RunOnceAddAlerts(w) ==
    /\ pass[w].pc = "poll"
    /\ pass[w].todo = <<>>
    /\ pass[w].new_filings # <<>>
    /\ \E storeOk \in BOOLEAN :
        IF storeOk
        THEN LET al == AddAlertsForFilings(alerts, pass[w].new_filings)
                 fresh == {i \in DOMAIN al : i > Len(alerts)}
             IN /\ alerts' = al
                /\ pass' = [pass EXCEPT ![w].pc = "ok",
                                        ![w].used = @ \cup {pass[w].session},
                                        ![w].made = Cardinality(fresh),
                                        ![w].madeUnread =
                                            Cardinality({i \in fresh : ~al[i].read})]
        ELSE /\ alerts' = alerts
             /\ pass' = [pass EXCEPT ![w].pc = "failed", ![w].err = "store",
                                     ![w].used = @ \cup {pass[w].session}]
    /\ UNCHANGED <<filings, watchlist, nruns, status>>

\* _refresh_filings_worker, line 323, and _on_filings_refreshed:
\* session.expire_all(), refresh_watchlist() if the count is not 0,
\* refresh_filings_table(), and the count on the status bar.
OnFilingsRefreshed(w) ==
    /\ pass[w].pc = "ok"
    /\ pass' = [pass EXCEPT ![w] = Ended(pass[w])]
    /\ status' = [kind |-> "refreshed", count |-> Len(pass[w].new_filings),
                  expired |-> TRUE,
                  reloaded |-> IF Len(pass[w].new_filings) # 0
                               THEN {"watchlist", "filings"} ELSE {"filings"}]
    /\ UNCHANGED <<filings, alerts, watchlist, nruns>>

\* _refresh_filings_worker, lines 314-316: the failure text on the status
\* bar, by _set_status alone.
OnRefreshFailedUnreported(w) ==
    /\ pass[w].pc = "failed"
    /\ pass' = [pass EXCEPT ![w] = IdlePass]
    /\ UNCHANGED <<filings, alerts, watchlist, nruns, status>>

OnRefreshFailed(w) ==
    /\ pass[w].pc = "failed"
    /\ pass' = [pass EXCEPT ![w] = Ended(pass[w])]
    /\ status' = [kind |-> "failed", count |-> 0,
                  expired |-> FALSE, reloaded |-> {}]
    /\ UNCHANGED <<filings, alerts, watchlist, nruns>>

\* ---------------------------------------------------------------- history
\* calls[w]: the <<ticker, listing>> of each fetch of the pass of worker w, and
\* lastUpsert.id as it was when its upsert_filings call in progress began.
NoCalls == [fetched |-> <<>>, prevId |-> <<0, 0>>]

\* lastUpsert: the upsert_filings call that ended last. id is <<worker,
\* ticker>>; inrow says that the call before it had ended when this one began,
\* and pbatch, pok and pnrows are then that call's batch, ok and nrows.
NoUpsert ==
    [id |-> <<0, 0>>, batch |-> <<>>, ok |-> FALSE, created |-> <<>>, nrows |-> 0,
     nadds |-> 0, nclears |-> 0,
     inrow |-> FALSE, pbatch |-> <<>>, pok |-> FALSE, pnrows |-> 0]

\* What a reported pass did. rows and resighted: the filing rows it inserted
\* and those it found persisted, in calls that committed. noprior: no ticker it fetched had a filing when
\* the pass started; distinct: its listings hold no id twice; unseen: no id of
\* its listings was persisted when the pass started.
Summary(p, c) ==
    [ok |-> p.err = "none", alone |-> p.alone, fetched |-> c.fetched,
     count |-> Len(p.new_filings), made |-> p.made, madeUnread |-> p.madeUnread,
     rows |-> p.rows, resighted |-> p.resighted,
     noprior |-> \A i \in DOMAIN c.fetched :
                    \A j \in DOMAIN p.f0 : p.f0[j].ticker_id # c.fetched[i][1],
     distinct |-> NoDup(Flatten(c.fetched)),
     unseen |-> \A i \in DOMAIN c.fetched :
                   \A k \in DOMAIN c.fetched[i][2] :
                       Lookup(p.f0, "sec", c.fetched[i][2][k]) = 0]

\* The history variables after a step of the program.
Observe ==
    LET began == {w \in Workers : pass[w].pc = "poll" /\ pass'[w].pc = "commit"}
        ended == {w \in Workers : pass[w].pc = "commit" /\ pass'[w].pc # "commit"}
        told == {w \in Workers : pass[w].pc \in {"ok", "failed"} /\ pass'[w].pc = "idle"}
    IN /\ UNCHANGED <<clk, call, catalog>>
       /\ calls' = [w \in Workers |->
                      IF pass[w].pc = "idle" /\ pass'[w].pc = "list" THEN NoCalls
                      ELSE IF w \in began
                           THEN [fetched |-> Append(calls[w].fetched,
                                                    <<pass'[w].cur, pass'[w].batch>>),
                                 prevId |-> lastUpsert.id]
                           ELSE calls[w]]
       /\ lastUpsert' =
            IF ended = {} THEN lastUpsert
            ELSE LET w == CHOOSE v \in ended : TRUE
                     p == pass[w]
                     ok == pass'[w].pc = "poll"
                     inrow == lastUpsert.id # <<0, 0>> /\ lastUpsert.id = calls[w].prevId
                 IN [id |-> <<w, p.cur>>, batch |-> p.batch, ok |-> ok,
                     created |-> IF ok THEN SubSeq(pass'[w].new_filings,
                                                   Len(p.new_filings) + 1,
                                                   Len(pass'[w].new_filings))
                                 ELSE <<>>,
                     nrows |-> Len(filings'),
                     nadds |-> Len(p.st.adds), nclears |-> Cardinality(p.st.clears),
                     inrow |-> inrow,
                     pbatch |-> IF inrow THEN lastUpsert.batch ELSE <<>>,
                     pok |-> inrow /\ lastUpsert.ok,
                     pnrows |-> IF inrow THEN lastUpsert.nrows ELSE 0]
       /\ hist' =
            IF told = {} THEN hist
            ELSE LET w == CHOOSE v \in told : TRUE
                     s == Summary(pass[w], calls[w])
                 IN IF hist = <<>> THEN <<s>> ELSE <<s, hist[1]>>

\* ------------------------------------------------------- the parser (sec.py)
NoCall == [op |-> "none"]

\* Values of the columns of filings.recent. An accession number is a string
\* or "" (missing). A filing date is "" (missing, null or empty), the ISO
\* date "2024-01-05", a string that is no ISO date, or a JSON value that is
\* no string, here the number 20240105 written "num:20240105".
AccessionVals == {"", "0001-24-000001", "0001-24-000002"}
DateVals == {"", "2024-01-05", "05/01/2024", "num:20240105"}

RawColumns(V) == UNION {[1..n -> V] : n \in 0..MaxRaw}
Limits == -1..MaxRaw

\* dt.date.fromisoformat: a date for an ISO string, ValueError for another
\* string, TypeError for an argument that is no string.
FromIsoFormat(raw) ==
    IF raw = "2024-01-05" THEN [raised |-> "none", date |-> <<2024, 1, 5>>]
    ELSE IF raw = "num:20240105" THEN [raised |-> "TypeError", date |-> <<>>]
    ELSE [raised |-> "ValueError", date |-> <<>>]

Min(a, b) == IF a <= b THEN a ELSE b
Max(a, b) == IF a >= b THEN a ELSE b

\* The loop of _parse_recent_filings from row i on, acc holding the filings
\* appended so far: row i is skipped, appended, or raises out of the function.
RECURSIVE ParseRows(_, _, _, _, _)
ParseRows(accession_numbers, filing_dates, max_rows, i, acc) ==
    IF i > max_rows THEN [raised |-> "none", filings |-> acc]
    ELSE LET accession == accession_numbers[i]
             filing_date_raw == IF i <= Len(filing_dates) THEN filing_dates[i] ELSE ""
         IN IF accession = "" \/ filing_date_raw = ""
            THEN ParseRows(accession_numbers, filing_dates, max_rows, i + 1, acc)
            ELSE LET d == FromIsoFormat(filing_date_raw)
                 IN IF d.raised = "ValueError"
                    THEN ParseRows(accession_numbers, filing_dates, max_rows, i + 1, acc)
                    ELSE IF d.raised # "none"
                         THEN [raised |-> d.raised, filings |-> <<>>]
                         ELSE ParseRows(accession_numbers, filing_dates, max_rows, i + 1,
                                        Append(acc, [filing_id |-> accession,
                                                     date |-> d.date]))

\* _parse_recent_filings(payload, ticker, cik_padded, limit).
ParseRecentFilingsAllRows(accession_numbers, filing_dates, limit) ==
    ParseRows(accession_numbers, filing_dates, Len(accession_numbers), 1, <<>>)

ParseRecentFilings(accession_numbers, filing_dates, limit) ==
    ParseRows(accession_numbers, filing_dates,
              Min(Len(accession_numbers), Max(0, limit)), 1, <<>>)

\* A call of _parse_recent_filings on some payload and limit.
ParseListing ==
    /\ call = NoCall
    /\ \E a \in RawColumns(AccessionVals), d \in RawColumns(DateVals), l \in Limits :
          call' = [op |-> "parse", accession_numbers |-> a, filing_dates |-> d,
                   limit |-> l, out |-> ParseRecentFilings(a, d, l)]
    /\ UNCHANGED <<prog, calls, hist, lastUpsert, clk, catalog>>

\* Values of the columns form, primaryDocument and primaryDocDescription:
\* "" is an empty string and "null" a JSON null, which is None.
Null == "null"
FormVals == {"", "8-K"}
DocVals == {"", "doc.htm"}
DescVals == {"", "Current report", Null}

\* Lines 78 and 88-101 of _parse_recent_filings for a row i that is
\* appended: the type and the title of its FilingMeta.
RowTypeTitle(forms, primary_docs, primary_desc, i) ==
    LET form == IF i <= Len(forms) THEN forms[i] ELSE ""
        primary_document == IF i <= Len(primary_docs) THEN primary_docs[i] ELSE ""
        title == IF i <= Len(primary_desc) THEN primary_desc[i] ELSE Null
    IN [type |-> IF form # "" THEN form ELSE "UNKNOWN",
        title |-> IF primary_document = "" /\ title = Null
                  THEN (IF form # "" THEN form ELSE Null)
                  ELSE title]

\* The type and title _parse_recent_filings gives row i of some payload.
ParseTitle ==
    /\ call = NoCall
    /\ \E f \in RawColumns(FormVals), d \in RawColumns(DocVals),
          t \in RawColumns(DescVals), i \in 1..MaxRaw :
          call' = [op |-> "title", forms |-> f, primary_docs |-> d,
                   primary_desc |-> t, row |-> i, out |-> RowTypeTitle(f, d, t, i)]
    /\ UNCHANGED <<prog, calls, hist, lastUpsert, clk, catalog>>

\* ------------------------------------------- dao functions on their own
\* Stores a dao function may be called on: up to MaxStored filing rows, row i
\* holding the i-th accession of the store and owned by a ticker with CIK,
\* and alert rows for distinct filings, read or not.
StoredFilings ==
    UNION {[1..n -> [source : {"sec"}, filing_id : 1..n,
                     ticker_id : {t \in Tickers : TickerCik[t] # ""},
                     is_new : {TRUE}]] : n \in 0..MaxStored}

StoredAlerts(n) ==
    {al \in UNION {[1..k -> [filing_id : 1..n, read : BOOLEAN]] : k \in 0..n} :
        \A i, j \in DOMAIN al : al[i].filing_id = al[j].filing_id => i = j}

Stores ==
    {st \in [filings : {f \in StoredFilings : \A i \in DOMAIN f : f[i].filing_id = i},
             alerts : StoredAlerts(MaxStored)] :
        \A a \in DOMAIN st.alerts : st.alerts[a].filing_id \in DOMAIN st.filings}

\* A call of mark_alerts_read on alerts of some store.
MarkAlertsReadCall ==
    /\ call = NoCall
    /\ \E st \in Stores : \E ids \in SUBSET DOMAIN st.alerts :
          call' = [op |-> "mark_alerts_read", store |-> st, ids |-> ids,
                   out |-> MarkAlertsRead(st.alerts, ids)]
    /\ UNCHANGED <<prog, calls, hist, lastUpsert, clk, catalog>>

\* A call of unread_alert_counts on some store.
UnreadAlertCountsCall ==
    /\ call = NoCall
    /\ \E st \in Stores :
          call' = [op |-> "unread_alert_counts", store |-> st,
                   out |-> UnreadAlertCounts(st.filings, st.alerts)]
    /\ UNCHANGED <<prog, calls, hist, lastUpsert, clk, catalog>>

\* upsert_filings(session, ticker, filings) as one call on the committed
\* rows: the loop, the commit, and the filings returned, as the ids of their
\* rows; a call that raises returns nothing.
UpsertFilings(rows, t, batch, storeOk) ==
    LET st == ScanAll(EmptySt, rows, batch)
        r == CommitFilings(rows, t, st.adds, st.clears, storeOk)
    IN [ok |-> r.ok, rows |-> r.rows,
        created |-> IF r.ok
                    THEN [i \in DOMAIN st.created |-> Lookup(r.rows, "sec", st.created[i])]
                    ELSE <<>>]

\* Stores upsert_filings may be called on: up to MaxKept rows, row i holding
\* accession i, owned by a ticker with CIK, new or seen again already; and
\* the listings it may be given, of accessions persisted or not.
KeptFilings ==
    {f \in UNION {[1..n -> [source : {"sec"}, filing_id : 1..n,
                            ticker_id : {t \in Tickers : TickerCik[t] # ""},
                            is_new : BOOLEAN]] : n \in 0..MaxKept} :
        \A i \in DOMAIN f : f[i].filing_id = i}

Listings == UNION {[1..n -> 1..(MaxKept + 2)] : n \in 0..(MaxBatch + 1)}

\* A call of upsert_filings on some store, for some ticker, with some listing.
UpsertFilingsCall ==
    /\ call = NoCall
    /\ \E rows \in KeptFilings, t \in {u \in Tickers : TickerCik[u] # ""},
          batch \in Listings, storeOk \in BOOLEAN :
          call' = [op |-> "upsert_filings", rows |-> rows, ticker |-> t,
                   batch |-> batch, storeOk |-> storeOk,
                   out |-> UpsertFilings(rows, t, batch, storeOk)]
    /\ UNCHANGED <<prog, calls, hist, lastUpsert, clk, catalog>>

\* ------------------------------- tickers and watchlist, row by row (dao.py)
\* Longest list of rows one upsert_tickers_bulk call is given, in a sequence
\* of calls and in a call on its own.
MaxRows == 2
MaxBulk == 3

\* Symbols as they are typed or listed, "" for a missing one, and str.upper.
Symbols == {"a", "A", "B"}
Upper(s) == IF s = "a" THEN "A" ELSE s
\* CIK values; "" is None.
Ciks == {"", "c1", "c2"}

\* Table tickers as rows [symbol, cik] and table watchlist as the ticker_id
\* of its rows; the row id is the index.
NoCatalog == [tickers |-> <<>>, watch |-> <<>>]

\* unique = True on Ticker.symbol and on Ticker.cik, where NULLs do not clash.
TickersUniqueOk(tk) ==
    \A i, j \in DOMAIN tk :
        i # j => /\ tk[i].symbol # tk[j].symbol
                 /\ tk[i].cik = "" \/ tk[i].cik # tk[j].cik

\* SELECT ... WHERE symbol = :s, first row or 0 (None).
FindSymbol(tk, sym) ==
    LET hit == {i \in DOMAIN tk : tk[i].symbol = sym}
    IN IF hit = {} THEN 0 ELSE CHOOSE i \in hit : \A j \in hit : i <= j

\* add_ticker: insert the row with the symbol in upper case; on
\* IntegrityError roll back and return the row that has the symbol, if any.
AddTickerAsTyped(tk, symbol, cik, storeOk) ==
    LET new == Append(tk, [symbol |-> symbol, cik |-> cik])
    IN IF storeOk /\ TickersUniqueOk(new)
       THEN [tickers |-> new, ticker |-> Len(new)]
       ELSE [tickers |-> tk, ticker |-> FindSymbol(tk, symbol)]

AddTicker(tk, symbol, cik, storeOk) ==
    LET new == Append(tk, [symbol |-> Upper(symbol), cik |-> cik])
    IN IF storeOk /\ TickersUniqueOk(new)
       THEN [tickers |-> new, ticker |-> Len(new)]
       ELSE [tickers |-> tk, ticker |-> FindSymbol(tk, Upper(symbol))]

\* The loop of upsert_tickers_bulk on st = [tickers, adds]: the lookup reads
\* the committed rows (autoflush is off), a hit takes the cik given if there
\* is one, a miss adds a pending row; a row without symbol is skipped.
BulkRow(st, tk, row) ==
    LET symbol == Upper(row.symbol)
        e == FindSymbol(tk, symbol)
    IN IF symbol = "" THEN st
       ELSE IF e # 0
            THEN [st EXCEPT !.tickers[e].cik = IF row.cik # "" THEN row.cik ELSE @]
            ELSE [st EXCEPT !.adds = Append(@, [symbol |-> symbol, cik |-> row.cik])]

RECURSIVE BulkScan(_, _, _)
BulkScan(st, tk, rows) ==
    IF rows = <<>> THEN st ELSE BulkScan(BulkRow(st, tk, Head(rows)), tk, Tail(rows))

\* upsert_tickers_bulk: the loop and its one commit, which the constraints or
\* the store may refuse; then no change is kept.
RECURSIVE UpsertTickersBulkRowByRow(_, _, _)
UpsertTickersBulkRowByRow(tk, rows, storeOk) ==
    IF rows = <<>> THEN [ok |-> TRUE, tickers |-> tk]
    ELSE LET st == BulkRow([tickers |-> tk, adds |-> <<>>], tk, Head(rows))
             new == st.tickers \o st.adds
         IN IF storeOk /\ TickersUniqueOk(new)
            THEN UpsertTickersBulkRowByRow(new, Tail(rows), storeOk)
            ELSE [ok |-> FALSE, tickers |-> tk]

UpsertTickersBulk(tk, rows, storeOk) ==
    LET st == BulkScan([tickers |-> tk, adds |-> <<>>], tk, rows)
        new == st.tickers \o st.adds
    IN IF storeOk /\ TickersUniqueOk(new)
       THEN [ok |-> TRUE, tickers |-> new]
       ELSE [ok |-> FALSE, tickers |-> tk]

\* UniqueConstraint("ticker_id") of table watchlist.
WatchUniqueOk(watch) == NoDup(watch)

\* Tables of tickers upsert_tickers_bulk may be called on, on its own: the
\* tickers "A" and "B", either or both, each with a CIK or none, and the
\* lists of rows it may be given.
TickerTables ==
    {tk \in UNION {[1..n -> [symbol : {"A", "B"}, cik : Ciks]] : n \in 0..2} :
        /\ TickersUniqueOk(tk)
        /\ \A i, j \in DOMAIN tk : i < j => tk[i].symbol = "A"}

BulkLists == UNION {[1..n -> [symbol : Symbols \cup {""}, cik : Ciks]] : n \in 0..MaxBulk}

\* A call of upsert_tickers_bulk on some table with some list of rows.
UpsertTickersBulkOn ==
    /\ call = NoCall
    /\ \E tk \in TickerTables, rows \in BulkLists, storeOk \in BOOLEAN :
          call' = [op |-> "bulk", before |-> tk, rows |-> rows, storeOk |-> storeOk,
                   out |-> UpsertTickersBulk(tk, rows, storeOk)]
    /\ UNCHANGED <<prog, calls, hist, lastUpsert, clk, catalog>>

\* add_to_watchlist: nothing if the ticker has an entry, else one new entry
\* and a commit.
AddToWatchlistUnchecked(watch, t) == Append(watch, t)

AddToWatchlist(watch, t) ==
    IF \E i \in DOMAIN watch : watch[i] = t THEN watch
    ELSE IF WatchUniqueOk(Append(watch, t)) THEN Append(watch, t) ELSE watch

\* remove_from_watchlist: delete the first entry of the ticker, if any.
RemoveFromWatchlist(watch, t) ==
    LET hit == {i \in DOMAIN watch : watch[i] = t}
    IN IF hit = {} THEN watch
       ELSE LET e == CHOOSE i \in hit : \A j \in hit : i <= j
            IN [i \in 1..(Len(watch) - 1) |-> IF i < e THEN watch[i] ELSE watch[i + 1]]

\* Calls of the four functions, one after another on the tables as the call
\* before left them; call.before is the table written as the call found it.
BulkRows == UNION {[1..n -> [symbol : Symbols \cup {""}, cik : Ciks]] : n \in 0..MaxRows}

AddTickerCall ==
    /\ \E symbol \in Symbols, cik \in Ciks, storeOk \in BOOLEAN :
          LET r == AddTicker(catalog.tickers, symbol, cik, storeOk)
          IN /\ catalog' = [catalog EXCEPT !.tickers = r.tickers]
             /\ call' = [op |-> "add_ticker", before |-> catalog.tickers,
                         symbol |-> symbol, cik |-> cik, out |-> r.ticker]
    /\ UNCHANGED <<prog, calls, hist, lastUpsert, clk>>

UpsertTickersBulkCall ==
    /\ \E rows \in BulkRows, storeOk \in BOOLEAN :
          LET r == UpsertTickersBulk(catalog.tickers, rows, storeOk)
          IN /\ catalog' = [catalog EXCEPT !.tickers = r.tickers]
             /\ call' = [op |-> "upsert_tickers_bulk", out |-> r.ok]
    /\ UNCHANGED <<prog, calls, hist, lastUpsert, clk>>

AddToWatchlistCall ==
    /\ \E t \in DOMAIN catalog.tickers :
          /\ catalog' = [catalog EXCEPT !.watch = AddToWatchlist(@, t)]
          /\ call' = [op |-> "add_to_watchlist", before |-> catalog.watch,
                      ticker |-> t]
    /\ UNCHANGED <<prog, calls, hist, lastUpsert, clk>>

RemoveFromWatchlistCall ==
    /\ \E t \in DOMAIN catalog.tickers :
          /\ catalog' = [catalog EXCEPT !.watch = RemoveFromWatchlist(@, t)]
          /\ call' = [op |-> "remove_from_watchlist", before |-> catalog.watch,
                      ticker |-> t]
    /\ UNCHANGED <<prog, calls, hist, lastUpsert, clk>>

\* ------------------------------------------------------------------- time
\* The clock at the start: set_interval has armed the timer one interval
\* ahead; -1 stands for "not yet". tstart is the latest start of a pass by
\* the timer: when, when the pass before it had completed, and whether a pass
\* was in progress. req is the latest outbound request and the one before it.
\* wake[w] is when the sleep of worker w in list_filings ends. timed holds
\* the passes the timer started, rejected the tickers whose fetch was
\* answered 4xx, and retried those of them that a pass started by the timer
\* requested afterwards.
Clock0 ==
    [now |-> 0, nextTick |-> Interval, lastDone |-> -1,
     tstart |-> [at |-> -1, prevDone |-> -1, busy |-> FALSE],
     req |-> [at |-> -1, prev |-> -1],
     wake |-> [w \in Workers |-> 0],
     timed |-> {}, rejected |-> {}, retried |-> {}]

\* Worker w is not in time.sleep(throttle_seconds).
Awake(w) == clk.now >= clk.wake[w]

\* The clock after a step of the program taken at time clk.now; byTimer says
\* that the interval timer made the call.
Timed(byTimer) ==
    LET started == \E w \in Workers : pass[w].pc = "idle" /\ pass'[w].pc = "list"
        asked == {w \in Workers : pass[w].pc = "poll" /\ pass'[w].pc = "commit"}
        refused == {w \in Workers : pass[w].pc = "poll" /\ pass'[w].pc = "failed"
                                        /\ pass'[w].err = "fetch"}
        told == {w \in Workers : pass[w].pc \in {"ok", "failed"} /\ pass'[w].pc = "idle"}
    IN /\ UNCHANGED history
       /\ clk' = [clk EXCEPT
             !.nextTick = IF byTimer THEN @ + Interval ELSE @,
             !.tstart = IF byTimer /\ started
                        THEN [at |-> clk.now, prevDone |-> clk.lastDone,
                              busy |-> \E w \in Workers : Active(w)]
                        ELSE @,
             !.lastDone = IF told # {} THEN clk.now ELSE @,
             !.req = IF asked \cup refused # {}
                     THEN [at |-> clk.now, prev |-> clk.req.at]
                     ELSE @,
             !.wake = [w \in Workers |->
                          IF w \in asked THEN clk.now + Throttle ELSE clk.wake[w]],
             !.timed = IF byTimer
                       THEN @ \cup {w \in Workers : pass[w].pc = "idle"
                                                       /\ pass'[w].pc = "list"}
                       ELSE @,
             !.rejected = @ \cup {pass'[w].cur : w \in {v \in refused : pass'[v].client}},
             !.retried = @ \cup {pass'[w].cur :
                                    w \in {v \in asked \cup refused :
                                              /\ v \in clk.timed
                                              /\ pass'[v].cur \in clk.rejected}}]

\* Time passes; the interval timer fires when it is due.
Tick ==
    /\ clk.now < MaxTime
    /\ clk.now < clk.nextTick
    /\ clk' = [clk EXCEPT !.now = @ + 1]
    /\ UNCHANGED <<prog, history>>

\* The timer of set_interval(interval, refresh_filings_from_sec) is due: it
\* calls refresh_filings_from_sec() and is due again one interval later.
TimerFires ==
    /\ clk.now = clk.nextTick
    /\ \/ RefreshFilingsFromSec
       \/ watchlist = {} /\ UNCHANGED prog
    /\ Timed(TRUE)

\* The application starts on the database file of earlier sessions: any
\* watchlist, and here no filing yet.
Init ==
    /\ filings = <<>>
    /\ alerts = <<>>
    /\ watchlist \in SUBSET Tickers
    /\ pass = [w \in Workers |-> IdlePass]
    /\ nruns = 0
    /\ status = [kind |-> "ready", count |-> 0, expired |-> FALSE, reloaded |-> {}]
    /\ calls = [w \in Workers |-> NoCalls]
    /\ hist = <<>>
    /\ lastUpsert = NoUpsert
    /\ clk = Clock0
    /\ call = NoCall
    /\ catalog = NoCatalog

\* The application: the foreground handlers and the worker threads, in any
\* interleaving. The history of calls is not recorded, and the watchlist only
\* grows: _remove_selected_ticker is a step of NextSeq.
Next ==
    \/ RefreshFilingsFromSec /\ UNCHANGED obs
    \/ \E t \in Tickers : AddTickerFromInput(t) /\ UNCHANGED obs
    \/ RefreshAlerts /\ UNCHANGED obs
    \/ \E w \in Workers : RunOnceList(w) /\ UNCHANGED obs
    \/ \E w \in Workers : PollSkip(w) /\ UNCHANGED obs
    \/ \E w \in Workers : PollFetchOk(w) /\ UNCHANGED obs
    \/ \E w \in Workers : PollFetchFail(w) /\ UNCHANGED obs
    \/ \E w \in Workers : UpsertCommit(w) /\ UNCHANGED obs
    \/ \E w \in Workers : RunOnceReturnEmpty(w) /\ UNCHANGED obs
    \/ \E w \in Workers : RunOnceAddAlerts(w) /\ UNCHANGED obs
    \/ \E w \in Workers : OnFilingsRefreshed(w) /\ UNCHANGED obs
    \/ \E w \in Workers : OnRefreshFailed(w) /\ UNCHANGED obs

Spec == Init /\ [][Next]_vars

\* The steps of worker thread w: run_once and the callback it posts.
WorkerStep(w) ==
    \/ RunOnceList(w) /\ UNCHANGED obs
    \/ PollSkip(w) /\ UNCHANGED obs
    \/ PollFetchOk(w) /\ UNCHANGED obs
    \/ PollFetchFail(w) /\ UNCHANGED obs
    \/ UpsertCommit(w) /\ UNCHANGED obs
    \/ RunOnceReturnEmpty(w) /\ UNCHANGED obs
    \/ RunOnceAddAlerts(w) /\ UNCHANGED obs
    \/ OnFilingsRefreshed(w) /\ UNCHANGED obs
    \/ OnRefreshFailed(w) /\ UNCHANGED obs

\* The application started with every ticker of the catalogue watched, and
\* with threads that are scheduled fairly: a started thread keeps running, a
\* request ends (httpx timeout = 30) and the event loop runs the callbacks
\* posted with call_from_thread.
InitLive == Init /\ watchlist = Tickers

SpecLive ==
    InitLive /\ [][Next]_vars /\ \A w \in Workers : WF_vars(WorkerStep(w))

\* One caller at a time: the operations of the foreground and run_once are
\* called one after another on one thread, so none begins while a pass is in
\* progress. The history of calls is recorded.
Quiet == \A w \in Workers : ~Active(w)

NextSeq ==
    \/ Quiet /\ RefreshFilingsFromSec /\ Observe
    \/ \E t \in Tickers : Quiet /\ AddTickerFromInput(t) /\ Observe
    \/ \E t \in Tickers : Quiet /\ RemoveSelectedTicker(t) /\ Observe
    \/ Quiet /\ RefreshAlerts /\ Observe
    \/ \E w \in Workers : RunOnceList(w) /\ Observe
    \/ \E w \in Workers : PollSkip(w) /\ Observe
    \/ \E w \in Workers : PollFetchOk(w) /\ Observe
    \/ \E w \in Workers : PollFetchFail(w) /\ Observe
    \/ \E w \in Workers : UpsertCommit(w) /\ Observe
    \/ \E w \in Workers : RunOnceReturnEmpty(w) /\ Observe
    \/ \E w \in Workers : RunOnceAddAlerts(w) /\ Observe
    \/ \E w \in Workers : OnFilingsRefreshed(w) /\ Observe
    \/ \E w \in Workers : OnRefreshFailed(w) /\ Observe

SpecSeq == Init /\ [][NextSeq]_vars

\* The application in time: the triggers of the user, the interval timer and
\* the worker threads, which sleep in list_filings after each listing.
NextTime ==
    \/ Tick
    \/ TimerFires
    \/ RefreshFilingsFromSec /\ Timed(FALSE)
    \/ \E t \in Tickers : AddTickerFromInput(t) /\ Timed(FALSE)
    \/ \E w \in Workers : Awake(w) /\ RunOnceList(w) /\ Timed(FALSE)
    \/ \E w \in Workers : Awake(w) /\ PollSkip(w) /\ Timed(FALSE)
    \/ \E w \in Workers : Awake(w) /\ PollFetchOk(w) /\ Timed(FALSE)
    \/ \E w \in Workers : Awake(w) /\ PollFetchFail(w) /\ Timed(FALSE)
    \/ \E w \in Workers : Awake(w) /\ UpsertCommit(w) /\ Timed(FALSE)
    \/ \E w \in Workers : Awake(w) /\ RunOnceReturnEmpty(w) /\ Timed(FALSE)
    \/ \E w \in Workers : Awake(w) /\ RunOnceAddAlerts(w) /\ Timed(FALSE)
    \/ \E w \in Workers : Awake(w) /\ OnFilingsRefreshed(w) /\ Timed(FALSE)
    \/ \E w \in Workers : Awake(w) /\ OnRefreshFailed(w) /\ Timed(FALSE)

SpecTime == Init /\ [][NextTime]_vars

\* The parser on its own, on every payload within the bounds.
NextParse ==
    \/ ParseListing
    \/ ParseTitle

SpecParse == Init /\ [][NextParse]_vars

\* The functions of the dao that read or mark alerts, on every store within
\* the bounds.
NextDao ==
    \/ MarkAlertsReadCall
    \/ UnreadAlertCountsCall

SpecDao == Init /\ [][NextDao]_vars

\* The state in which a function of the dao is called on its own on tables
\* of its own: the application has nothing watched and starts no pass.
InitCall == Init /\ watchlist = {}

\* upsert_filings on its own, on every store and listing within the bounds.
NextUpsert == UpsertFilingsCall

SpecUpsert == InitCall /\ [][NextUpsert]_vars

\* The functions of the dao that write table tickers, in any order, from an
\* empty table.
NextTickers ==
    \/ AddTickerCall
    \/ UpsertTickersBulkCall

SpecTickers == InitCall /\ [][NextTickers]_vars

\* upsert_tickers_bulk on its own, on every table and list within the bounds.
NextBulk == UpsertTickersBulkOn

SpecBulk == InitCall /\ [][NextBulk]_vars

\* The functions of the dao that write table watchlist, in any order, from
\* an empty table, on the tickers that add_ticker has made.
NextWatch ==
    \/ AddTickerCall
    \/ AddToWatchlistCall
    \/ RemoveFromWatchlistCall

SpecWatch == InitCall /\ [][NextWatch]_vars

\* ------------------------------------------------------------------ claims

\* C1: at every instant at most one pass is executing run_once; a trigger
\* that arrives while a pass runs starts no second, overlapping pass.
C1_AtMostOnePassRunning == Cardinality({w \in Workers : Running(w)}) <= 1

\* C2: in a pass over several tickers with CIK the failure of one ticker's
\* fetch does not abort the run: the pass goes on and does not end failed.
C2_FetchFailureIsolated ==
    \A w \in Workers :
        (pass[w].err = "fetch" /\ pass[w].targets > 1) => pass[w].pc # "failed"

\* C3: when run_once has ended, by return or by raising, the alert rows the
\* run created are as many as the filing rows it inserted and committed.
C3_AlertsEqualInserted ==
    \A w \in Workers :
        pass[w].pc \in {"ok", "failed"} => pass[w].made = pass[w].inserted

\* C4: in every committed state of the store each filing row has its alert
\* row: a filing and its alert become visible together.
C4_FilingVisibleWithAlert ==
    \A i \in DOMAIN filings : \E a \in DOMAIN alerts : alerts[a].filing_id = i

\* C5: no two persisted filing rows have the same (source, filing_id), in
\* every reachable state of the store, under every interleaving of the passes.
C5_UniqueFilingKey ==
    \A i, j \in DOMAIN filings :
        (filings[i].source = filings[j].source
            /\ filings[i].filing_id = filings[j].filing_id) => i = j

\* Two passes overlapped, one inserted a filing each, and the commit of one
\* of them was refused.
C5_Witness ==
    /\ {filings[i].filing_id : i \in DOMAIN filings} = FilingIds
    /\ \E v, w \in Workers :
          /\ v # w
          /\ ~pass[v].alone /\ pass[v].inserted = 1
          /\ ~pass[w].alone /\ pass[w].inserted = 1
          /\ pass[w].err = "store" /\ pass[w].lost.adds > 0

\* C6: when upsert_filings is called twice in a row with the same record set
\* and both calls return, the second returns no inserted filing and leaves as
\* many filing rows as the first did.
C6_UpsertIdempotent ==
    (/\ lastUpsert.ok
     /\ lastUpsert.inrow
     /\ lastUpsert.pok
     /\ SeqToSet(lastUpsert.pbatch) = SeqToSet(lastUpsert.batch))
    => (lastUpsert.created = <<>> /\ lastUpsert.nrows = lastUpsert.pnrows)

\* The second of two such calls has returned, on a batch of two records.
C6_Witness ==
    /\ lastUpsert.ok
    /\ lastUpsert.inrow
    /\ lastUpsert.pok
    /\ lastUpsert.pbatch = lastUpsert.batch
    /\ Len(lastUpsert.batch) = 2
    /\ lastUpsert.nclears = 2

\* C7: an alert row that has read = true keeps read = true in every step of
\* the passes and of the foreground.
C7_ReadMonotonic ==
    [][\A i \in DOMAIN alerts :
          alerts[i].read => (i \in DOMAIN alerts' /\ alerts'[i].read)]_vars

\* An alert was read, and a later pass has added an unread alert after it.
C7_Witness ==
    \E i, j \in DOMAIN alerts : i < j /\ alerts[i].read /\ ~alerts[j].read

\* C8: a pass that returns, polls tickers without prior filings and is given
\* listings of distinct ids none of which is persisted under any ticker,
\* returns as many filings as the listings hold and creates as many alerts,
\* all unread; the pass run right after it on the same listings returns none
\* and creates no alert.
C8_Fresh(r) == r.ok /\ r.noprior /\ r.distinct /\ r.unseen

C9_UpsertAllOrNothing ==
    [][\A w \in Workers :
          (pass[w].pc = "commit" /\ pass'[w].pc \notin {"commit", "poll"})
              => (/\ filings' = filings
                  /\ pass'[w].pc = "failed"
                  /\ pass'[w].err = "store")]_vars

\* A call that had a row to insert and an is_new flag to clear has raised.
C9_Witness ==
    \E w \in Workers :
        /\ pass[w].pc = "failed"
        /\ pass[w].err = "store"
        /\ pass[w].lost.adds > 0
        /\ pass[w].lost.clears > 0
        /\ \E i \in DOMAIN filings : filings[i].is_new

\* C10: when a pass that no other pass overlaps fails with a store error, the
\* filing rows and the alert rows are those of the start of the pass.
C10_FailedRunLeavesStore ==
    \A w \in Workers :
        (pass[w].pc = "failed" /\ pass[w].err = "store" /\ pass[w].alone)
            => (filings = pass[w].f0 /\ Len(alerts) = pass[w].a0)

C12_TimerRearmedAtCompletion ==
    clk.tstart.at >= 0 =>
        /\ ~clk.tstart.busy
        /\ clk.tstart.prevDone >= 0 => clk.tstart.at >= clk.tstart.prevDone + Interval

\* C14: two consecutive outbound requests, of whichever passes, are at least
\* the throttle delay apart.
C14_RequestsThrottled ==
    clk.req.prev >= 0 => clk.req.at >= clk.req.prev + Throttle

\* C13: when a pass has returned or has stopped at a fetch that raised, the
\* tickers it called the adapter for are exactly the watched tickers, narrowed
\* to the filter symbols if any were given, that have a CIK.
C13_Called(w) ==
    {calls[w].fetched[i][1] : i \in DOMAIN calls[w].fetched}
        \cup (IF pass[w].err = "fetch" THEN {pass[w].cur} ELSE {})

C13_Wanted(w) ==
    {t \in watchlist : /\ pass[w].symbols = {} \/ t \in pass[w].symbols
                       /\ TickerCik[t] # ""}

C13_AdapterCalledForTargets ==
    \A w \in Workers :
        (pass[w].pc = "ok" \/ (pass[w].pc = "failed" /\ pass[w].err = "fetch"))
            => C13_Called(w) = C13_Wanted(w)

\* C15: the parse does not fail, and of the rows within the limit it drops
\* exactly those whose accession number is missing or whose date is missing
\* or is no ISO date: k rows with m such rows yield k - m filings.
C15_Rows(c) == 1..Min(Len(c.accession_numbers), Max(0, c.limit))

C15_Malformed(c) ==
    {i \in C15_Rows(c) :
        \/ c.accession_numbers[i] = ""
        \/ i > Len(c.filing_dates)
        \/ c.filing_dates[i] # "2024-01-05"}

C15_DropsExactlyMalformed ==
    call.op = "parse" =>
        /\ call.out.raised = "none"
        /\ Len(call.out.filings)
             = Cardinality(C15_Rows(call)) - Cardinality(C15_Malformed(call))

\* C16: when the outcome of a pass has been reported, with new filings, with
\* none, or as a failure, the foreground has discarded what its session had
\* loaded and has reloaded the filings it shows.
C16_ViewReloadedAfterReport ==
    status.kind \in {"refreshed", "failed"} =>
        (status.expired /\ "filings" \in status.reloaded)

\* C17: the store operations of a pass run on the session made for that
\* pass, which is not the foreground's and not another pass's, and when the
\* worker function has returned that session is closed.
C17_OwnSessionClosed ==
    \A w \in Workers :
        /\ ForegroundSession \notin pass[w].used
        /\ pass[w].used \subseteq {pass[w].session}
        /\ \A v \in Workers : (v # w /\ pass[v].used # {}) => pass[v].session # pass[w].session
        /\ ~Active(w) => ~pass[w].sopen

\* Two passes have ended, the one reported last by a failure; each ran on
\* its own session, and two filings were committed.
C17_Witness ==
    /\ \A w \in Workers :
          ~Active(w) /\ pass[w].used = {w} /\ ~pass[w].sopen /\ pass[w].posted = 1
    /\ Len(filings) = 2
    /\ status.kind = "failed"

\* C18: mark_alerts_read leaves the alert rows as they were except that the
\* alerts given have read = true; given only alerts that are read already it
\* leaves every row as it was.
C18_MarksExactlyGiven ==
    call.op = "mark_alerts_read" =>
        LET al == call.store.alerts
        IN /\ DOMAIN call.out = DOMAIN al
           /\ \A i \in DOMAIN al :
                 /\ call.out[i].filing_id = al[i].filing_id
                 /\ i \in call.ids => call.out[i].read
                 /\ i \notin call.ids => call.out[i].read = al[i].read
           /\ (\A i \in call.ids : al[i].read) => call.out = al

\* The call was given a read alert and an unread one, and not a third alert
\* that is unread.
C18_Witness ==
    /\ call.op = "mark_alerts_read"
    /\ \E i, j \in call.ids : call.store.alerts[i].read /\ ~call.store.alerts[j].read
    /\ \E k \in DOMAIN call.out : k \notin call.ids /\ ~call.out[k].read

\* C19: unread_alert_counts maps each ticker that owns a filing with an unread
\* alert to the number of unread alerts on its filings, and has no key for
\* any other ticker.
C19_Unread(st, t) ==
    {a \in DOMAIN st.alerts :
        ~st.alerts[a].read /\ st.filings[st.alerts[a].filing_id].ticker_id = t}

C19_CountsUnreadPerTicker ==
    call.op = "unread_alert_counts" =>
        \A t \in Tickers :
            IF C19_Unread(call.store, t) = {}
            THEN t \notin DOMAIN call.out
            ELSE t \in DOMAIN call.out
                    /\ call.out[t] = Cardinality(C19_Unread(call.store, t))

\* One ticker has two unread alerts and the other owns a filing whose alert
\* is read.
C19_Witness ==
    /\ call.op = "unread_alert_counts"
    /\ \E t \in DOMAIN call.out : call.out[t] = 2
    /\ \E f \in DOMAIN call.store.filings :
          /\ call.store.filings[f].ticker_id \notin DOMAIN call.out
          /\ \E a \in DOMAIN call.store.alerts : call.store.alerts[a].filing_id = f

\* C20: in the step that creates alerts, no upsert_filings call of any pass is
\* in flight on a listing that holds the filing of one of the new alerts.
C20_NoAlertDuringUpsert ==
    [][\A a \in (DOMAIN alerts') \ (DOMAIN alerts) :
          \A v \in Workers :
              ~(/\ pass[v].pc = "commit"
                /\ filings[alerts'[a].filing_id].filing_id \in SeqToSet(pass[v].batch))]_vars

\* The alert rows a step adds.
CreatedAlerts == (DOMAIN alerts') \ (DOMAIN alerts)

\* C21: alert rows are added only by the step of a pass that ends run_once;
\* each is unread and is for a filing row that this pass inserted and
\* committed, which was not persisted when the pass began.
C21_AlertsOnlyForInserted ==
    [][CreatedAlerts # {} =>
          \E w \in Workers :
              /\ pass[w].pc = "poll" /\ pass'[w].pc = "ok"
              /\ \A a \in CreatedAlerts :
                    /\ ~alerts'[a].read
                    /\ alerts'[a].filing_id \in pass[w].rows
                    /\ alerts'[a].filing_id > Len(pass[w].f0)]_vars

\* A pass that overlapped another has returned: it inserted one filing, found
\* another persisted, and the one alert is for the filing it inserted.
C21_Witness ==
    \E w \in Workers :
        /\ pass[w].pc = "ok"
        /\ ~pass[w].alone
        /\ Cardinality(pass[w].rows) = 1
        /\ pass[w].resighted # {}
        /\ pass[w].resighted \cap pass[w].rows = {}
        /\ pass[w].made = 1
        /\ alerts[Len(alerts)].filing_id \in pass[w].rows

\* C21 as stated: no alert a pass creates is for a filing row that the pass
\* found persisted at one of its lookups.
C21_NoAlertForResighted ==
    [][\A w \in Workers :
          (pass[w].pc = "poll" /\ pass'[w].pc = "ok")
              => \A a \in CreatedAlerts :
                    alerts'[a].filing_id \notin pass[w].resighted]_vars

\* C25: after any sequence of add_to_watchlist and remove_from_watchlist
\* calls each ticker has at most one watchlist entry; add_to_watchlist on a
\* watched ticker and remove_from_watchlist on an unwatched one leave the
\* table as it was.
C25_Entries(watch, t) == {i \in DOMAIN watch : watch[i] = t}

C25_OneEntryPerTicker ==
    /\ \A t \in DOMAIN catalog.tickers :
          Cardinality(C25_Entries(catalog.watch, t)) <= 1
    /\ (call.op = "add_to_watchlist" /\ C25_Entries(call.before, call.ticker) # {})
          => catalog.watch = call.before
    /\ (call.op = "remove_from_watchlist" /\ C25_Entries(call.before, call.ticker) = {})
          => catalog.watch = call.before

\* add_to_watchlist was called on a ticker that was watched already, with
\* another ticker watched as well.
C25_Witness ==
    /\ call.op = "add_to_watchlist"
    /\ C25_Entries(call.before, call.ticker) # {}
    /\ Len(catalog.watch) = 2

C28_RejectedNotRetried == clk.retried = {}

\* C22: when a call of upsert_filings that returns was given a record whose
\* (source, filing_id) is persisted, the row that holds it has is_new = false
\* afterwards, keeps its source, filing_id and ticker_id also when the call
\* was for another ticker, is the only row with that key, and is not among
\* the filings returned.
C22_ResightClearsFlagOnly ==
    (call.op = "upsert_filings" /\ call.out.ok) =>
        \A k \in DOMAIN call.batch :
            LET e == Lookup(call.rows, "sec", call.batch[k])
            IN e # 0 =>
                 /\ ~call.out.rows[e].is_new
                 /\ call.out.rows[e].source = call.rows[e].source
                 /\ call.out.rows[e].filing_id = call.rows[e].filing_id
                 /\ call.out.rows[e].ticker_id = call.rows[e].ticker_id
                 /\ \A i \in DOMAIN call.out.rows :
                       (call.out.rows[i].source = call.rows[e].source
                           /\ call.out.rows[i].filing_id = call.rows[e].filing_id) => i = e
                 /\ e \notin SeqToSet(call.out.created)

\* A call for one ticker returned: its listing held a filing persisted as
\* new under another ticker, and a filing not persisted, which it inserted.
C22_Witness ==
    /\ call.op = "upsert_filings"
    /\ call.out.ok
    /\ Len(call.out.created) = 1
    /\ \E k \in DOMAIN call.batch :
          LET e == Lookup(call.rows, "sec", call.batch[k])
          IN e # 0 /\ call.rows[e].is_new /\ call.rows[e].ticker_id # call.ticker

\* C27: for a listing of pairwise distinct ids, upsert_filings on any
\* permutation of it raises or returns as it does on the listing, leaves the
\* same set of filing rows with the same is_new flags, and returns the same
\* set of inserted filings.
C27_RowSet(rows) == {rows[i] : i \in DOMAIN rows}

C27_Inserted(out) == {out.rows[i].filing_id : i \in SeqToSet(out.created)}

C27_OrderIndependent ==
    (call.op = "upsert_filings" /\ NoDup(call.batch)) =>
        \A p \in Permutations(DOMAIN call.batch) :
            LET o == UpsertFilings(call.rows, call.ticker,
                                   [i \in DOMAIN call.batch |-> call.batch[p[i]]],
                                   call.storeOk)
            IN /\ o.ok = call.out.ok
               /\ C27_RowSet(o.rows) = C27_RowSet(call.out.rows)
               /\ C27_Inserted(o) = C27_Inserted(call.out)

\* A call returned on a listing of three distinct ids, a persisted one
\* between two that it inserted.
C27_Witness ==
    /\ call.op = "upsert_filings"
    /\ call.out.ok
    /\ NoDup(call.batch)
    /\ Len(call.batch) = 3
    /\ Lookup(call.rows, "sec", call.batch[2]) # 0
    /\ Len(call.out.created) = 2

\* C23: a record the parser emits for a row whose description is missing,
\* null or empty has a title, taken from the filing type, whether or not the
\* row names a primary document.
C23_Untitled(c) ==
    \/ c.row > Len(c.primary_desc)
    \/ c.primary_desc[c.row] \in {"", Null}

C23_TitleFallsBackToType ==
    (call.op = "title" /\ C23_Untitled(call)) => call.out.title \notin {"", Null}

\* C24: no step of run_once, in a run that returns or in one that raises,
\* adds, removes or changes a watchlist entry; the steps of a pass write
\* filing rows and alert rows only.
C24_RunOnceStep(w) ==
    /\ Running(w)
    /\ pass'[w].pc # pass[w].pc \/ pass'[w].todo # pass[w].todo

C29_IsNewMonotonic ==
    [][/\ \A i \in DOMAIN filings :
             /\ i \in DOMAIN filings'
             /\ ~filings[i].is_new => ~filings'[i].is_new
             /\ (filings[i].is_new /\ ~filings'[i].is_new) =>
                   \E w \in Workers : pass[w].pc = "commit" /\ i \in pass[w].st.clears
       /\ \A i \in (DOMAIN filings') \ (DOMAIN filings) : filings'[i].is_new
       /\ \A w \in Workers :
             (pass[w].pc = "commit" /\ pass'[w].pc = "poll") =>
                 \A i \in pass[w].st.clears : ~filings'[i].is_new]_vars

\* A filing was seen again by two passes, and a filing inserted later is
\* still new.
C29_Witness ==
    /\ Len(filings) = 2
    /\ ~filings[1].is_new /\ filings[2].is_new
    /\ \A w \in Workers : 1 \in pass[w].resighted

\* C30: in every state of the store, under every interleaving of the passes
\* and the foreground, no filing row has two alerts and every alert is for a
\* filing row that is persisted.
C30_OneAlertPerFiling ==
    /\ \A a \in DOMAIN alerts : alerts[a].filing_id \in DOMAIN filings
    /\ \A a, b \in DOMAIN alerts : alerts[a].filing_id = alerts[b].filing_id => a = b

\* Two passes that overlapped have each created the alert of the filing it
\* inserted, and one of the alerts has been read.
C30_Witness ==
    /\ Len(alerts) = 2
    /\ alerts[1].read
    /\ \A w \in Workers : ~pass[w].alone /\ pass[w].made = 1

\* C31: when a pass has inserted filings and ended without creating alerts,
\* the pass run after it inserts none of them again and, if it returns, has
\* cleared is_new on each of them that its listings held; none of them has
\* an alert afterwards.
C31_Orphans == IF Len(hist) = 2 /\ ~hist[2].ok THEN hist[2].rows ELSE {}

C31_Listed(r) == SeqToSet(Flatten(r.fetched))

C31_OrphanStaysWithoutAlert ==
    \A i \in C31_Orphans :
        /\ i \in DOMAIN filings
        /\ i \notin hist[1].rows
        /\ \A a \in DOMAIN alerts : alerts[a].filing_id # i
        /\ (hist[1].ok /\ filings[i].filing_id \in C31_Listed(hist[1]))
              => (~filings[i].is_new /\ i \in hist[1].resighted)

\* A pass inserted a filing and raised; the pass after it was given that
\* filing and another one, and returned with one alert.
C31_Witness ==
    /\ C31_Orphans # {}
    /\ hist[1].ok
    /\ \E i \in C31_Orphans : filings[i].filing_id \in C31_Listed(hist[1])
    /\ hist[1].made = 1
    /\ Len(alerts) = 1

\* C32: a call of upsert_filings whose listing holds twice a (source,
\* filing_id) that is not persisted raises at its commit and persists
\* nothing of the listing: no row is inserted, no is_new flag is cleared, and
\* nothing is returned.
C32_RepeatsUnpersisted(c) ==
    \E j, k \in DOMAIN c.batch :
        /\ j # k
        /\ c.batch[j] = c.batch[k]
        /\ Lookup(c.rows, "sec", c.batch[j]) = 0

C32_DuplicateInBatchFails ==
    (call.op = "upsert_filings" /\ C32_RepeatsUnpersisted(call)) =>
        /\ ~call.out.ok
        /\ call.out.rows = call.rows
        /\ call.out.created = <<>>

\* The store was up, and the listing held an unpersisted filing twice after
\* a filing that is persisted as new.
C32_Witness ==
    /\ call.op = "upsert_filings"
    /\ call.storeOk
    /\ Len(call.batch) = 3
    /\ call.batch[2] = call.batch[3]
    /\ Lookup(call.rows, "sec", call.batch[2]) = 0
    /\ Lookup(call.rows, "sec", call.batch[1]) # 0
    /\ call.rows[Lookup(call.rows, "sec", call.batch[1])].is_new

C34_Kept(c) == C15_Rows(c) \ C15_Malformed(c)

C34_LimitOnRawRows ==
    (call.op = "parse" /\ call.out.raised = "none") =>
        LET kept == SortedSeq(C34_Kept(call))
        IN /\ Len(call.out.filings) = Len(kept)
           /\ \A k \in DOMAIN kept :
                 call.out.filings[k].filing_id = call.accession_numbers[kept[k]]
           /\ Len(call.out.filings) <= Max(0, call.limit)
           /\ call.limit <= 0 => call.out.filings = <<>>

\* With limit 1, a listing whose first row is malformed and whose second
\* row is well-formed yields no record.
C34_Witness ==
    /\ call.op = "parse"
    /\ call.limit = 1
    /\ call.out.raised = "none"
    /\ call.out.filings = <<>>
    /\ Len(call.accession_numbers) = 2 /\ Len(call.filing_dates) = 2
    /\ call.accession_numbers[2] # "" /\ call.filing_dates[2] = "2024-01-05"

\* C35: a call of upsert_tickers_bulk raises at its one commit and leaves
\* table tickers as it was, with no ticker created and none updated, when
\* two of its rows, whose symbols differ in upper case, are not empty and
\* occur in no other row, carry the same CIK that is not empty, or when two
\* of its rows carry, in whichever letter case, the same symbol that no
\* ticker has.
C35_Named(c, j) == Upper(c.rows[j].symbol)

C35_Once(c, j) ==
    /\ C35_Named(c, j) # ""
    /\ \A k \in DOMAIN c.rows : C35_Named(c, k) = C35_Named(c, j) => k = j

C35_CikClash(c) ==
    \E j, k \in DOMAIN c.rows :
        /\ C35_Once(c, j) /\ C35_Once(c, k)
        /\ C35_Named(c, j) # C35_Named(c, k)
        /\ c.rows[j].cik # "" /\ c.rows[j].cik = c.rows[k].cik

C35_NewSymbolTwice(c) ==
    \E j, k \in DOMAIN c.rows :
        /\ j # k
        /\ C35_Named(c, j) # "" /\ C35_Named(c, j) = C35_Named(c, k)
        /\ FindSymbol(c.before, C35_Named(c, j)) = 0

C35_BulkAllOrNothing ==
    (call.op = "bulk" /\ (C35_CikClash(call) \/ C35_NewSymbolTwice(call))) =>
        (~call.out.ok /\ call.out.tickers = call.before)

\* The store was up; the list named a ticker that exists, giving it a new
\* CIK, then a new symbol, and then that new symbol again in lower case.
C35_Witness ==
    /\ call.op = "bulk"
    /\ call.storeOk
    /\ C35_NewSymbolTwice(call)
    /\ Len(call.rows) = 3
    /\ FindSymbol(call.before, C35_Named(call, 1)) # 0
    /\ call.rows[1].cik \notin {"", call.before[FindSymbol(call.before, C35_Named(call, 1))].cik}
    /\ call.rows[2].symbol # call.rows[3].symbol

\* C35 as stated: the call raises and persists nothing whenever two of its
\* rows with different symbols carry the same CIK that is not empty; the
\* symbols are compared in upper case and rows without symbol left out.
C35_AnyTwoRowsClash ==
    (/\ call.op = "bulk"
     /\ \E j, k \in DOMAIN call.rows :
           /\ call.rows[j].symbol # "" /\ call.rows[k].symbol # ""
           /\ C35_Named(call, j) # C35_Named(call, k)
           /\ call.rows[j].cik # "" /\ call.rows[j].cik = call.rows[k].cik)
    => (~call.out.ok /\ call.out.tickers = call.before)

====
